---- MODULE Spec2Model ----
(***************************************************************************)
(* JSON-RPC 2.0 request processing of src/lib.rs: JsonRpcServer with the   *)
(* HashMapWithMethods handler.  One call of handle_request is followed     *)
(* from the raw text to the optional text it returns.                      *)
(***************************************************************************)
EXTENDS Integers, Sequences, FiniteSets, TLC

(***************************************************************************)
(* rustc_serialize::json::Json values.  A value is a record tagged by its  *)
(* variant; an object carries a function from its member names to values.  *)
(***************************************************************************)
Null == [t |-> "null"]
Bool(b) == [t |-> "bool", v |-> b]
Num(n) == [t |-> "num", v |-> n]
Str(s) == [t |-> "str", v |-> s]
Arr(s) == [t |-> "arr", v |-> s]
Obj(f) == [t |-> "obj", v |-> f]

EmptyMap == [k \in {} |-> Null]

\* Option<T>
None == [some |-> FALSE]
Some(x) == [some |-> TRUE, val |-> x]

\* Result<T, E>
Ok(x) == [ok |-> TRUE, val |-> x]
Err(e) == [ok |-> FALSE, err |-> e]

\* BTreeMap::get on the members of an object
Get(d, key) == IF key \in DOMAIN d THEN Some(d[key]) ELSE None

\* Json::as_string behind an Option (the and_then(|o| o.as_string()) idiom)
as_string(o) == IF o.some /\ o.val.t = "str" THEN Some(o.val.v) ELSE None

\* Json::as_object
as_object(j) == IF j.t = "obj" THEN Some(j.v) ELSE None

(***************************************************************************)
(* ErrorCode and its helpers                                               *)
(***************************************************************************)
ParseError == [kind |-> "ParseError"]
InvalidRequest == [kind |-> "InvalidRequest"]
MethodNotFound == [kind |-> "MethodNotFound"]
InvalidParams == [kind |-> "InvalidParams"]
InternalError == [kind |-> "InternalError"]
ServerError(c, s) == [kind |-> "ServerError", code |-> c, msg |-> s]

ServerErrorLow == -32099
ServerErrorHigh == -32000

get_code(e) ==
    CASE e.kind = "ParseError" -> -32700
      [] e.kind = "InvalidRequest" -> -32600
      [] e.kind = "MethodNotFound" -> -32601
      [] e.kind = "InvalidParams" -> -32602
      [] e.kind = "InternalError" -> -32603
      [] e.kind = "ServerError" -> e.code

get_desc(e) ==
    CASE e.kind = "ParseError" -> "Parse error"
      [] e.kind = "InvalidRequest" -> "Invalid Request"
      [] e.kind = "MethodNotFound" -> "Method not found"
      [] e.kind = "InvalidParams" -> "Invalid params"
      [] e.kind = "InternalError" -> "Internal error"
      [] e.kind = "ServerError" -> e.msg

\* the range pattern written with an exclusive upper end
is_valid_exclusive(e) ==
    IF e.kind = "ServerError"
    THEN ServerErrorLow <= e.code /\ e.code < ServerErrorHigh
    ELSE TRUE

is_valid(e) ==
    IF e.kind = "ServerError"
    THEN ServerErrorLow <= e.code /\ e.code <= ServerErrorHigh
    ELSE TRUE

(***************************************************************************)
(* InternalErrorCode, ErrorJsonRpc, JsonRpcRequest, JsonRpcResponse        *)
(***************************************************************************)
WithId(err, id, data) == [with |-> TRUE, err |-> err, id |-> id, data |-> data]
WithoutId(err, data) == [with |-> FALSE, err |-> err, data |-> data]

ErrorJsonRpc_new(err) == [error |-> err, data |-> None]
ErrorJsonRpc_new_data(err, data) == [error |-> err, data |-> Some(data)]

JsonRpcRequest(method, params, id) ==
    [method |-> method, params |-> params, id |-> id]

new_error(err, data, id) ==
    LET error == IF is_valid(err) THEN err ELSE InternalError
    IN [result |-> None,
        error |-> IF data.some
                  THEN Some(ErrorJsonRpc_new_data(error, data.val))
                  ELSE Some(ErrorJsonRpc_new(error)),
        id |-> id]

\* the response built with a null id instead of the request's
new_result_null_id(req, data) ==
    [result |-> Some(data), error |-> None, id |-> Some(Null)]

\* a value returned for a notification reported as an internal error
new_result_checked(req, data) ==
    IF req.id = None /\ data # Null
    THEN new_error(InternalError, None, Some(Null))
    ELSE [result |-> Some(data), error |-> None, id |-> req.id]

new_result(req, data) ==
    [result |-> Some(data), error |-> None, id |-> req.id]

into_response(e) ==
    IF e.with
    THEN new_error(e.err, e.data, e.id)
    ELSE new_error(e.err, e.data, Some(Null))

\* ToJson for ErrorJsonRpc
error_to_json(e) ==
    Obj(("code" :> Num(get_code(e.error)))
        @@ ("message" :> Str(get_desc(e.error)))
        @@ (IF e.data.some THEN "data" :> e.data.val ELSE EmptyMap))

\* the projection without the early return for a missing id
response_to_json_no_sentinel(r) ==
    Obj(("jsonrpc" :> Str("2.0"))
        @@ (IF r.result.some THEN "result" :> r.result.val ELSE EmptyMap)
        @@ (IF r.error.some THEN "error" :> error_to_json(r.error.val) ELSE EmptyMap)
        @@ (IF r.id.some THEN "id" :> r.id.val ELSE EmptyMap))

\* ToJson for JsonRpcResponse
response_to_json(r) ==
    IF r.id = None
    THEN Null
    ELSE Obj(("jsonrpc" :> Str("2.0"))
             @@ (IF r.result.some THEN "result" :> r.result.val ELSE EmptyMap)
             @@ (IF r.error.some THEN "error" :> error_to_json(r.error.val) ELSE EmptyMap)
             @@ (IF r.id.some THEN "id" :> r.id.val ELSE EmptyMap))

\* ToJson for Vec<JsonRpcResponse>
vector_to_json(vec) == Arr([i \in 1..Len(vec) |-> response_to_json(vec[i])])

\* Json::to_string: a text is represented by the document it spells
to_string(j) == [text |-> j]

(***************************************************************************)
(* Handler for HashMapWithMethods.  A registry maps a method name to the   *)
(* outcome of its closure, a Result<Json, ErrorJsonRpc>.                   *)
(***************************************************************************)
\* a missing method reported as an internal error
handle_internal_error(h, req) ==
    IF req.method \in DOMAIN h
    THEN h[req.method]
    ELSE Err(ErrorJsonRpc_new(InternalError))

handle(h, req) ==
    IF req.method \in DOMAIN h
    THEN h[req.method]
    ELSE Err(ErrorJsonRpc_new(MethodNotFound))

\* From<ParserError> for InternalErrorCode, reporting the wrong kind
from_parser_error_invalid_request == WithoutId(InvalidRequest, None)

from_parser_error == WithoutId(ParseError, None)

(***************************************************************************)
(* JsonRpcServer::_handle_single and the checks it makes in order          *)
(***************************************************************************)
\* the version check accepting any string
version_ok_any_string(req) == as_string(Get(req, "jsonrpc")).some

version_ok(req) ==
    LET s == as_string(Get(req, "jsonrpc"))
    IN IF s.some THEN s.val = "2.0" ELSE FALSE

\* the object check on the id left out
id_is_object_never(request_id) == FALSE

id_is_object(request_id) == request_id.some /\ request_id.val.t = "obj"

\* the params match letting every present value through
params_of_unchecked(req) ==
    LET p == Get(req, "params")
    IN IF p.some
       THEN IF p.val.t \in {"arr", "obj"} THEN Ok(p) ELSE Ok(None)
       ELSE Ok(None)

\* the params match without the arm for null
params_of_null_rejected(req) ==
    LET p == Get(req, "params")
    IN IF p.some
       THEN IF p.val.t \in {"arr", "obj"}
            THEN Ok(p)
            ELSE Err(WithoutId(InvalidRequest, None))
       ELSE Ok(None)

params_of(req) ==
    LET p == Get(req, "params")
    IN IF p.some
       THEN CASE p.val.t \in {"arr", "obj"} -> Ok(p)
              [] p.val.t = "null" -> Ok(None)
              [] OTHER -> Err(WithoutId(InvalidRequest, None))
       ELSE Ok(None)

\* the outcome of _handle_single and the requests handed to Handler::handle
Rejected(e) == [res |-> Err(e), invoked |-> <<>>]

handle_single(h, req) ==
    IF ~version_ok(req)
    THEN Rejected(WithoutId(InvalidRequest, None))
    ELSE LET request_id == Get(req, "id") IN
         IF id_is_object(request_id)
         THEN Rejected(WithoutId(InvalidRequest, None))
         ELSE LET request_method == as_string(Get(req, "method")) IN
              IF ~request_method.some
              THEN Rejected(WithoutId(InvalidRequest, None))
              ELSE LET request_params == params_of(req) IN
                   IF ~request_params.ok
                   THEN Rejected(request_params.err)
                   ELSE LET request == JsonRpcRequest(request_method.val,
                                                      request_params.val,
                                                      request_id)
                            r == handle(h, request)
                        IN [res |-> IF r.ok
                                    THEN Ok(new_result(request, r.val))
                                    ELSE Err(WithId(r.err.error, request.id, r.err.data)),
                            invoked |-> <<request>>]

(***************************************************************************)
(* JsonRpcServer::_handle_multiple, one element at a time                  *)
(***************************************************************************)
\* the emptiness check left out
batch_is_empty_skipped(array) == FALSE

batch_is_empty(array) == Len(array) = 0

\* the body of the filter_map closure up to unwrap_or_else
process_element(h, elem) ==
    LET o == as_object(elem)
    IN IF ~o.some
       THEN [response |-> into_response(WithoutId(InvalidRequest, None)),
             invoked |-> <<>>]
       ELSE LET s == handle_single(h, o.val)
            IN [response |-> IF s.res.ok THEN s.res.val ELSE into_response(s.res.err),
                invoked |-> s.invoked]

\* the retained responses collected in reverse
filter_collect_reversed(vec, response) ==
    IF response.id = None THEN vec ELSE <<response>> \o vec

\* the tail of the filter_map closure and collect()
filter_collect(vec, response) ==
    IF response.id = None THEN vec ELSE Append(vec, response)

batch_result(vec) ==
    IF Len(vec) = 0 THEN Ok(None) ELSE Ok(Some(vector_to_json(vec)))

(***************************************************************************)
(* JsonRpcServer::handle_request_context: from the Result of               *)
(* _handle_request to the Option<String> returned                          *)
(***************************************************************************)
\* the match without its null guards
render_unguarded(result) ==
    IF result.ok
    THEN IF result.val.some THEN Some(to_string(result.val.val)) ELSE None
    ELSE Some(to_string(response_to_json(into_response(result.err))))

render(result) ==
    IF result.ok
    THEN IF result.val.some /\ result.val.val # Null
         THEN Some(to_string(result.val.val))
         ELSE None
    ELSE LET response == response_to_json(into_response(result.err))
         IN IF response = Null THEN None ELSE Some(to_string(response))

\* Json::from_str on a request text
from_str(text) == IF text.wellformed THEN Ok(text.doc) ELSE Err("ParserError")

(***************************************************************************)
(* Inputs: registries, request objects and request texts                   *)
(***************************************************************************)
MaxBatch == 3

\* the registry of JsonRpcServer::new()
EmptyRegistry == EmptyMap

\* closures that succeed, and closures that fail with each kind of error
Registry ==
    [sum |-> Ok(Num(7)),
     notify_hello |-> Ok(Null),
     get_data |-> Ok(Arr(<<Str("hello"), Num(5)>>)),
     srv_low |-> Err(ErrorJsonRpc_new(ServerError(-32099, "low"))),
     srv_high |-> Err(ErrorJsonRpc_new_data(ServerError(-32000, "high"), Str("detail"))),
     srv_under |-> Err(ErrorJsonRpc_new(ServerError(-32100, "under"))),
     srv_over |-> Err(ErrorJsonRpc_new_data(ServerError(-31999, "over"), Num(3))),
     bad_params |-> Err(ErrorJsonRpc_new(InvalidParams))]

Registries == {EmptyRegistry, Registry}

MethodNames == DOMAIN Registry \cup {"foobar"}

\* a member left out of a request object
Absent == [t |-> "absent"]

Members == {"jsonrpc", "id", "method", "params"}

JsonrpcChoices == {Absent, Str("2.0"), Str("1.0"), Num(2)}
IdChoices == {Absent, Null, Num(1), Str("1"), Obj(EmptyMap), Bool(TRUE), Arr(<<Num(1)>>)}
MethodChoices == {Absent, Num(1)} \cup {Str(m) : m \in MethodNames}
ParamsChoices ==
    {Absent, Arr(<<Num(42), Num(23)>>), Obj([subtrahend |-> Num(23)]), Null, Str("bar")}

MkObject(c) == Obj([k \in {m \in Members : c[m] # Absent} |-> c[k]])

RequestObjects ==
    {MkObject([jsonrpc |-> j, id |-> i, method |-> m, params |-> p]) :
        j \in JsonrpcChoices, i \in IdChoices, m \in MethodChoices, p \in ParamsChoices}

Request(i, m, p) ==
    MkObject([jsonrpc |-> Str("2.0"), id |-> i, method |-> m, params |-> p])

Scalars == {Null, Num(1), Str("sum"), Bool(FALSE)}

\* the elements batches are made of: one of each way an element can go
BatchElements ==
    {Num(1),
     Obj([foo |-> Str("boo")]),
     Request(Str("1"), Str("sum"), Arr(<<Num(42), Num(23)>>)),
     Request(Num(1), Str("get_data"), Absent),
     Request(Absent, Str("notify_hello"), Arr(<<Num(42), Num(23)>>)),
     Request(Absent, Str("sum"), Null),
     Request(Str("1"), Str("foobar"), Obj([subtrahend |-> Num(23)])),
     Request(Absent, Str("foobar"), Absent),
     Request(Null, Str("srv_under"), Absent),
     Request(Absent, Str("bad_params"), Absent),
     Request(Num(1), Absent, Absent),
     Request(Obj(EmptyMap), Str("sum"), Absent)}

Batches == UNION {[1..n -> BatchElements] : n \in 0..MaxBatch}

Documents == RequestObjects \cup Scalars \cup {Arr(b) : b \in Batches}

\* texts that do not parse: cut short or otherwise not JSON
BrokenDocuments ==
    {Null,
     Request(Str("1"), Str("sum"), Str("bar")),
     Arr(<<Request(Str("1"), Str("sum"), Arr(<<Num(42), Num(23)>>)),
           MkObject([jsonrpc |-> Str("2.0"), id |-> Absent, method |-> Absent,
                     params |-> Absent])>>)}

Texts ==
    {[wellformed |-> TRUE, doc |-> d] : d \in Documents}
    \cup {[wellformed |-> FALSE, doc |-> d] : d \in BrokenDocuments}

(***************************************************************************)
(* One call of handle_request                                              *)
(***************************************************************************)
VARIABLES
    handler,          \* JsonRpcServer.handler
    request,          \* the text passed to handle_request
    pc,               \* "parse", "dispatch", "batch", "done"
    request_json,     \* the parsed document
    idx,              \* position of the iterator over the batch
    response_vector,  \* the responses collected from the batch
    calls,            \* the requests handed to Handler::handle, in order
    output            \* the Option<String> returned

vars == <<handler, request, pc, request_json, idx, response_vector, calls, output>>

Init ==
    /\ handler \in Registries
    /\ request \in Texts
    /\ pc = "parse"
    /\ request_json = Null
    /\ idx = 0
    /\ response_vector = <<>>
    /\ calls = <<>>
    /\ output = None

\* Json::from_str fails: try! converts the error and the call returns
ParseFail ==
    /\ pc = "parse"
    /\ ~from_str(request).ok
    /\ output' = render(Err(from_parser_error))
    /\ pc' = "done"
    /\ UNCHANGED <<handler, request, request_json, idx, response_vector, calls>>

ParseOk ==
    /\ pc = "parse"
    /\ from_str(request).ok
    /\ request_json' = from_str(request).val
    /\ pc' = "dispatch"
    /\ UNCHANGED <<handler, request, idx, response_vector, calls, output>>

\* Json::Object(ref s) => self._handle_single(s, custom).map(|m| Some(m.to_json()))
Single ==
    /\ pc = "dispatch"
    /\ request_json.t = "obj"
    /\ LET s == handle_single(handler, request_json.v)
       IN /\ output' = render(IF s.res.ok
                              THEN Ok(Some(response_to_json(s.res.val)))
                              ELSE s.res)
          /\ calls' = calls \o s.invoked
    /\ pc' = "done"
    /\ UNCHANGED <<handler, request, request_json, idx, response_vector>>

\* _ => Err(InternalErrorCode::WithoutId(ErrorCode::InvalidRequest, None))
NotARequest ==
    /\ pc = "dispatch"
    /\ request_json.t \notin {"obj", "arr"}
    /\ output' = render(Err(WithoutId(InvalidRequest, None)))
    /\ pc' = "done"
    /\ UNCHANGED <<handler, request, request_json, idx, response_vector, calls>>

\* Json::Array(ref a) with a.is_empty()
BatchEmpty ==
    /\ pc = "dispatch"
    /\ request_json.t = "arr"
    /\ batch_is_empty(request_json.v)
    /\ output' = render(Err(WithoutId(InvalidRequest, None)))
    /\ pc' = "done"
    /\ UNCHANGED <<handler, request, request_json, idx, response_vector, calls>>

BatchBegin ==
    /\ pc = "dispatch"
    /\ request_json.t = "arr"
    /\ ~batch_is_empty(request_json.v)
    /\ idx' = 1
    /\ pc' = "batch"
    /\ UNCHANGED <<handler, request, request_json, response_vector, calls, output>>

\* one turn of array.iter().filter_map(...)
BatchElement ==
    /\ pc = "batch"
    /\ idx <= Len(request_json.v)
    /\ LET e == process_element(handler, request_json.v[idx])
       IN /\ response_vector' = filter_collect(response_vector, e.response)
          /\ calls' = calls \o e.invoked
    /\ idx' = idx + 1
    /\ UNCHANGED <<handler, request, pc, request_json, output>>

\* collect() is complete: the batch result is rendered and returned
BatchFinish ==
    /\ pc = "batch"
    /\ idx > Len(request_json.v)
    /\ output' = render(batch_result(response_vector))
    /\ pc' = "done"
    /\ UNCHANGED <<handler, request, request_json, idx, response_vector, calls>>

Next ==
    \/ ParseFail
    \/ ParseOk
    \/ Single
    \/ NotARequest
    \/ BatchEmpty
    \/ BatchBegin
    \/ BatchElement
    \/ BatchFinish

Spec == Init /\ [][Next]_vars

(***************************************************************************)
(* Vocabulary of the properties                                            *)
(***************************************************************************)
Done == pc = "done"

LegalId(i) == i.t \in {"str", "num", "null"}

\* a request object that gets past every check of the envelope
ValidEnvelope(j) ==
    /\ j.t = "obj"
    /\ "jsonrpc" \in DOMAIN j.v
    /\ j.v["jsonrpc"] = Str("2.0")
    /\ ("id" \in DOMAIN j.v => j.v["id"].t # "obj")
    /\ "method" \in DOMAIN j.v
    /\ j.v["method"].t = "str"
    /\ ("params" \in DOMAIN j.v => j.v["params"].t \in {"arr", "obj", "null"})

HasId(j) == "id" \in DOMAIN j.v

ErrorText(code, message, id) ==
    Some(to_string(Obj([jsonrpc |-> Str("2.0"),
                        error |-> Obj([code |-> Num(code), message |-> Str(message)]),
                        id |-> id])))

ErrorTextWithData(code, message, data, id) ==
    Some(to_string(Obj([jsonrpc |-> Str("2.0"),
                        error |-> Obj([code |-> Num(code), message |-> Str(message),
                                       data |-> data]),
                        id |-> id])))

ResultText(v, id) ==
    Some(to_string(Obj([jsonrpc |-> Str("2.0"), result |-> v, id |-> id])))

\* C1: a call with jsonrpc "2.0", a registered method, array or object
\* params and a string, number or null id, whose handler returns v, is
\* answered by exactly {jsonrpc: "2.0", result: v, id: the request's id}.
C1_SuccessEchoesId ==
    (/\ Done
     /\ request.wellformed
     /\ request.doc.t = "obj"
     /\ Get(request.doc.v, "jsonrpc") = Some(Str("2.0"))
     /\ "method" \in DOMAIN request.doc.v
     /\ request.doc.v["method"].t = "str"
     /\ request.doc.v["method"].v \in DOMAIN handler
     /\ handler[request.doc.v["method"].v].ok
     /\ "params" \in DOMAIN request.doc.v
     /\ request.doc.v["params"].t \in {"arr", "obj"}
     /\ "id" \in DOMAIN request.doc.v
     /\ LegalId(request.doc.v["id"]))
    => output = ResultText(handler[request.doc.v["method"].v].val,
                           request.doc.v["id"])

C1_Witness ==
    /\ Done
    /\ handler = Registry
    /\ request = [wellformed |-> TRUE,
                  doc |-> Request(Null, Str("get_data"), Arr(<<Num(42), Num(23)>>))]
    /\ output = ResultText(Arr(<<Str("hello"), Num(5)>>), Null)

\* C2: a single request object that passes the envelope checks and has no
\* id member returns None, whether its handler succeeds, fails or is missing.
C2_NotificationNoOutput ==
    (/\ Done
     /\ request.wellformed
     /\ ValidEnvelope(request.doc)
     /\ ~HasId(request.doc))
    => output = None

C2_Witness ==
    /\ Done
    /\ handler = Registry
    /\ request = [wellformed |-> TRUE,
                  doc |-> Request(Absent, Str("bad_params"), Arr(<<Num(42), Num(23)>>))]
    /\ Len(calls) = 1
    /\ output = None

\* C3: a text that is not JSON returns exactly the Parse error object with
\* id null and no data, and no handler is invoked.
C3_ParseError ==
    (Done /\ ~request.wellformed)
    => /\ output = ErrorText(-32700, "Parse error", Null)
       /\ calls = <<>>

C3_Witness ==
    /\ Done
    /\ ~request.wellformed
    /\ request.doc.t = "arr"
    /\ output = ErrorText(-32700, "Parse error", Null)

C5_MethodNotFound ==
    (/\ Done
     /\ request.wellformed
     /\ ValidEnvelope(request.doc)
     /\ HasId(request.doc)
     /\ LegalId(request.doc.v["id"])
     /\ request.doc.v["method"].v \notin DOMAIN handler)
    => output = ErrorText(-32601, "Method not found", request.doc.v["id"])

C5_Witness ==
    /\ Done
    /\ handler = Registry
    /\ request = [wellformed |-> TRUE, doc |-> Request(Str("1"), Str("foobar"), Absent)]
    /\ output = ErrorText(-32601, "Method not found", Str("1"))

\* an element of a batch that is answered: anything but a valid notification
Contributes(elem) == ~(ValidEnvelope(elem) /\ ~HasId(elem))

InvalidRequestObject ==
    Obj([jsonrpc |-> Str("2.0"),
         error |-> Obj([code |-> Num(-32600), message |-> Str("Invalid Request")]),
         id |-> Null])

\* what an entry of the output array must be to answer an element
Answers(entry, elem) ==
    IF ValidEnvelope(elem)
    THEN /\ entry.t = "obj"
         /\ "id" \in DOMAIN entry.v
         /\ entry.v["id"] = elem.v["id"]
    ELSE entry = InvalidRequestObject

\* C6: a non-empty batch returns one response per element that is not a
\* valid notification, in the order of the elements (an element that is not
\* an object or fails the envelope checks is answered by Invalid Request
\* with id null); when no element is answered the result is None.
C6_BatchOneResponsePerCall ==
    (/\ Done
     /\ request.wellformed
     /\ request.doc.t = "arr"
     /\ Len(request.doc.v) > 0)
    => LET answered == SelectSeq(request.doc.v, Contributes)
       IN IF Len(answered) = 0
          THEN output = None
          ELSE /\ output.some
               /\ output.val.text.t = "arr"
               /\ Len(output.val.text.v) = Len(answered)
               /\ \A k \in 1..Len(answered) :
                      Answers(output.val.text.v[k], answered[k])

C6_Witness ==
    /\ Done
    /\ handler = Registry
    /\ request.wellformed
    /\ request.doc = Arr(<<Request(Str("1"), Str("sum"), Arr(<<Num(42), Num(23)>>)),
                           Request(Absent, Str("notify_hello"), Arr(<<Num(42), Num(23)>>)),
                           Num(1)>>)
    /\ output.some
    /\ Len(output.val.text.v) = 2
    /\ output.val.text.v[2] = InvalidRequestObject

\* C7: the empty batch returns the single Invalid Request object with id
\* null, not an array, and no handler is invoked.
C7_EmptyBatch ==
    (Done /\ request.wellformed /\ request.doc = Arr(<<>>))
    => /\ output = ErrorText(-32600, "Invalid Request", Null)
       /\ calls = <<>>

C7_Witness ==
    /\ Done
    /\ request = [wellformed |-> TRUE, doc |-> Arr(<<>>)]
    /\ output.some
    /\ output.val.text.t = "obj"

\* the closure outcome of the method a valid request names
OutcomeOf(j) == handler[j.v["method"].v]

\* C8: when the handler fails a call with ServerError(code, message) the
\* error response carries code and message if -32099 <= code <= -32000 and
\* -32603 "Internal error" otherwise, with the request's id and the
\* handler's data.
C8_ServerErrorRange ==
    (/\ Done
     /\ request.wellformed
     /\ ValidEnvelope(request.doc)
     /\ HasId(request.doc)
     /\ request.doc.v["method"].v \in DOMAIN handler
     /\ ~OutcomeOf(request.doc).ok
     /\ OutcomeOf(request.doc).err.error.kind = "ServerError")
    => LET e == OutcomeOf(request.doc).err
           inRange == -32099 <= e.error.code /\ e.error.code <= -32000
           code == IF inRange THEN e.error.code ELSE -32603
           message == IF inRange THEN e.error.msg ELSE "Internal error"
       IN output = IF e.data.some
                   THEN ErrorTextWithData(code, message, e.data.val,
                                          request.doc.v["id"])
                   ELSE ErrorText(code, message, request.doc.v["id"])

C8_Witness ==
    /\ Done
    /\ handler = Registry
    /\ request = [wellformed |-> TRUE, doc |-> Request(Str("1"), Str("srv_over"), Absent)]
    /\ output = ErrorTextWithData(-32603, "Internal error", Num(3), Str("1"))

\* a response object on the wire
ResponseObject(j) ==
    /\ j.t = "obj"
    /\ DOMAIN j.v \subseteq {"jsonrpc", "id", "result", "error"}
    /\ Get(j.v, "jsonrpc") = Some(Str("2.0"))
    /\ "id" \in DOMAIN j.v
    /\ ("result" \in DOMAIN j.v) # ("error" \in DOMAIN j.v)

\* C9: a returned text is a response object with jsonrpc "2.0", id and
\* exactly one of result and error, or a non-empty array of such objects;
\* never the literal null, an empty array or an array with a null entry.
C9_OutputWellShaped ==
    (Done /\ output.some)
    => \/ ResponseObject(output.val.text)
       \/ /\ output.val.text.t = "arr"
          /\ Len(output.val.text.v) > 0
          /\ \A k \in 1..Len(output.val.text.v) :
                 ResponseObject(output.val.text.v[k])

C9_Witness ==
    /\ Done
    /\ handler = Registry
    /\ request.wellformed
    /\ request.doc = Arr(<<Request(Absent, Str("sum"), Null),
                           Request(Null, Str("srv_under"), Absent)>>)
    /\ output.some
    /\ Len(output.val.text.v) = 1

\* the JsonRpcRequest a valid request object is turned into
RequestOf(j) ==
    [method |-> j.v["method"].v,
     params |-> IF "params" \in DOMAIN j.v /\ j.v["params"].t \in {"arr", "obj"}
                THEN Some(j.v["params"])
                ELSE None,
     id |-> Get(j.v, "id")]

\* the values handle_request has gone through so far
Processed ==
    CASE request.wellformed /\ request.doc.t = "arr" /\ pc = "batch" ->
             SubSeq(request.doc.v, 1, idx - 1)
      [] request.wellformed /\ request.doc.t = "arr" /\ pc = "done" ->
             request.doc.v
      [] request.wellformed /\ request.doc.t = "obj" /\ pc = "done" ->
             <<request.doc>>
      [] OTHER -> <<>>

\* C10: the handler is invoked once for each request object gone through
\* that passes the envelope checks, in array order, and for nothing else;
\* an element that fails, or whose handler fails, does not stop the later
\* ones.
C10_HandlerOncePerValidRequest ==
    LET valid == SelectSeq(Processed, ValidEnvelope)
    IN calls = [k \in 1..Len(valid) |-> RequestOf(valid[k])]

C10_Witness ==
    /\ Done
    /\ handler = Registry
    /\ request.wellformed
    /\ request.doc = Arr(<<Num(1),
                           Request(Null, Str("srv_under"), Absent),
                           Request(Absent, Str("notify_hello"), Arr(<<Num(42), Num(23)>>))>>)
    /\ Len(calls) = 2
    /\ calls[1].method = "srv_under"
    /\ calls[2].method = "notify_hello"

\* a request object with jsonrpc "2.0" and a string, number or null id
\* that is turned down at the method step or at the params step
FailsAfterId(j) ==
    /\ j.t = "obj"
    /\ Get(j.v, "jsonrpc") = Some(Str("2.0"))
    /\ HasId(j)
    /\ LegalId(j.v["id"])
    /\ \/ ~as_string(Get(j.v, "method")).some
       \/ ("params" \in DOMAIN j.v /\ j.v["params"].t \notin {"arr", "obj"})

\* C11: a request object with jsonrpc "2.0" and a string, number or null id
\* i whose method is absent or not a string, or whose params are present
\* but neither an array nor an object, is answered by Invalid Request
\* carrying i rather than null.
C11_InvalidRequestKeepsId ==
    (Done /\ request.wellformed /\ FailsAfterId(request.doc))
    => output = ErrorText(-32600, "Invalid Request", request.doc.v["id"])

\* the id members of the responses in a returned text
EmittedIds ==
    IF ~output.some
    THEN {}
    ELSE IF output.val.text.t = "arr"
         THEN {output.val.text.v[k].v["id"] : k \in 1..Len(output.val.text.v)}
         ELSE {output.val.text.v["id"]}

\* C12 as stated: the id of every response emitted is a string, a number
\* or null; an id of any other JSON type is never echoed.
C12_EmittedIdsScalar ==
    Done => \A i \in EmittedIds : LegalId(i)

\* C12: the id of every response emitted is never a JSON object (a request
\* whose id is an object is answered with id null); an id of any other
\* JSON type, boolean and array included, is echoed as it came.
C12_EmittedIdsNotObject ==
    /\ Done => \A i \in EmittedIds : i.t # "obj"
    /\ (/\ Done
        /\ request.wellformed
        /\ ValidEnvelope(request.doc)
        /\ HasId(request.doc))
       => EmittedIds = {request.doc.v["id"]}

C12_Witness ==
    /\ Done
    /\ handler = Registry
    /\ request = [wellformed |-> TRUE, doc |-> Request(Bool(TRUE), Str("sum"), Absent)]
    /\ output = ResultText(Num(7), Bool(TRUE))

\* the returned text is a single Invalid Request error response
RejectedInvalidRequest ==
    /\ output.some
    /\ output.val.text.t = "obj"
    /\ Get(output.val.text.v, "error")
         = Some(Obj([code |-> Num(-32600), message |-> Str("Invalid Request")]))
    /\ "result" \notin DOMAIN output.val.text.v

HasParamsOtherThan(j, types) ==
    /\ j.t = "obj"
    /\ "params" \in DOMAIN j.v
    /\ j.v["params"].t \notin types

\* C13 as stated: a request object whose params member is present and is
\* neither an array nor an object, explicit null included, is rejected
\* with Invalid Request and its handler is not invoked.
C13_NonStructuredParamsRejected ==
    (Done /\ request.wellformed /\ HasParamsOtherThan(request.doc, {"arr", "obj"}))
    => RejectedInvalidRequest /\ calls = <<>>

\* C13: a request object whose params member is present and is neither an
\* array, an object nor null is rejected with Invalid Request and its
\* handler is not invoked; explicit null params are accepted and handed to
\* the handler as absent params.
C13_ScalarParamsRejectedNullAccepted ==
    /\ (Done /\ request.wellformed
             /\ HasParamsOtherThan(request.doc, {"arr", "obj", "null"}))
       => RejectedInvalidRequest /\ calls = <<>>
    /\ (/\ Done
        /\ request.wellformed
        /\ ValidEnvelope(request.doc)
        /\ Get(request.doc.v, "params") = Some(Null))
       => /\ calls = <<[method |-> request.doc.v["method"].v,
                        params |-> None,
                        id |-> Get(request.doc.v, "id")]>>
          /\ ~RejectedInvalidRequest

C13_Witness ==
    /\ Done
    /\ handler = Registry
    /\ request = [wellformed |-> TRUE, doc |-> Request(Str("1"), Str("sum"), Str("bar"))]
    /\ RejectedInvalidRequest
    /\ calls = <<>>

\* a valid notification whose handler returns a value other than null
NotificationWithValue(j) ==
    /\ ValidEnvelope(j)
    /\ ~HasId(j)
    /\ j.v["method"].v \in DOMAIN handler
    /\ OutcomeOf(j).ok
    /\ OutcomeOf(j).val # Null

\* C14 as stated: a valid notification whose handler returns a value other
\* than null is answered by an Internal error (-32603) response.
C14_NotificationValueIsInternalError ==
    (Done /\ request.wellformed /\ NotificationWithValue(request.doc))
    => /\ output.some
       /\ output.val.text.t = "obj"
       /\ Get(output.val.text.v, "error")
            = Some(Obj([code |-> Num(-32603), message |-> Str("Internal error")]))

\* C14: a valid notification whose handler returns a value other than null
\* gets no output: the handler is invoked once, its value is dropped and no
\* Internal error is surfaced.
C14_NotificationValueDropped ==
    (Done /\ request.wellformed /\ NotificationWithValue(request.doc))
    => /\ output = None
       /\ calls = <<RequestOf(request.doc)>>

C14_Witness ==
    /\ Done
    /\ handler = Registry
    /\ request = [wellformed |-> TRUE,
                  doc |-> Request(Absent, Str("get_data"), Obj([subtrahend |-> Num(23)]))]
    /\ calls = <<[method |-> "get_data",
                  params |-> Some(Obj([subtrahend |-> Num(23)])),
                  id |-> None]>>
    /\ output = None
====
